---- MODULE Spec2Model ----
(***************************************************************************)
(* Model of the audio engine of ez-audio-studio: the useAudioProcessor     *)
(* hook (src/components/AudioProcessor.tsx, lines 1-598) and the Studio    *)
(* page's import / export handlers (src/pages/Studio.tsx).                 *)
(*                                                                         *)
(* Units.  Time and buffer positions are integers in milliseconds; time   *)
(* passes in steps of TickMs.  Instants are kept relative to the present: *)
(* a timer by the time left until it fires, a clock reading taken earlier *)
(* (a start time) by the time elapsed since, so that                      *)
(* audioContext.currentTime - startTime is the stored value.  The 0..1    *)
(* sliders (volume, bassBoost, reverb) and the tempo are integers in      *)
(* tenths.  Linear gains are in millionths, dB values in tenths of a dB.  *)
(***************************************************************************)
EXTENDS Integers, Sequences, FiniteSets, TLC

(* ---------------------------- bounds ----------------------------------- *)
MaxNodes == 2          \* source nodes that exist at the same instant
MaxPendingPlays == 2   \* play() calls suspended in "await resume()"

(* ------------------------ program constants ---------------------------- *)
EffectDebounceMs == 100
TimeUpdateMs == 500
TickMs == EffectDebounceMs

DefaultEffects == [reverb |-> 3, bassBoost |-> 0, tempo |-> 8, volume |-> 7]

\* The parameter snapshots the UI produces: the default, one change of the
\* tempo, and one change of each of volume and reverb.
TempoSnapshots == {DefaultEffects, [DefaultEffects EXCEPT !.tempo = 10]}
StageSnapshots ==
    { DefaultEffects,
      [DefaultEffects EXCEPT !.volume = 10],
      [DefaultEffects EXCEPT !.reverb = 6] }
Snapshots == TempoSnapshots \cup StageSnapshots

Min(a, b) == IF a <= b THEN a ELSE b
Max(a, b) == IF a >= b THEN a ELSE b

(* ---------------------- parameter mapping ------------------------------ *)
\* Math.pow(10, (v*2-1)*3)/10 for v <= 0.5, Math.pow(10, (v-0.5)*2.4)/10 above,
\* 0 at v = 0, tabulated for v in tenths, in millionths.
VolumeCurve ==
    <<398, 1585, 6310, 25119, 100000, 173780, 301995, 524807, 912011, 1584893>>

\* updateEffects, volume: clamped to [0, 2].
VolumeGainLive(v) == IF v = 0 THEN 0 ELSE Max(0, Min(2000000, VolumeCurve[v]))

\* createProcessedBuffer, volume: 10^(clamp(20*log10(v), -60, 6)/20), which is
\* v itself for 0.001 <= v <= 1 and 0.001 at v = 0 (log10(0) = -Infinity).
VolumeGainOffline(v) == IF v = 0 THEN 1000 ELSE v * 100000

\* updateEffects, bass boost: the dB value handed to Math.pow(10, x/20).
BassGainLive(b) == IF b <= 5 THEN b * 12 ELSE 60 + (b - 5) * 18

\* createProcessedBuffer, bass boost: Math.min(20, bassBoost * 30).
BassGainOffline(b) == Min(200, b * 30)

\* createProcessedBuffer, high shelf: Math.min(10, bassBoost * 5).
HighShelfGainOffline(b) == Min(100, b * 5)

DryGain(r) == (10 - r) * 100000

\* A wet gain equal to the reverb amount, as the earlier implementation sets
\* it: the variant C27_DryWetMix has to tell from WetGain.
WetGainUnscaled(r) == r * 100000

WetGain(r) == r * 150000
PostFilterGain(r) == r * 4

(* ------------------------------ graphs --------------------------------- *)
\* A stage is [kind, freq (Hz), q (tenths), val]; val is the linear gain of a
\* gain stage, or the argument x of Math.pow(10, x/20) set on a shelf filter,
\* or the dB gain set on the peaking filter.
Stage(kind, freq, q, val) == [kind |-> kind, freq |-> freq, q |-> q, val |-> val]

\* The live graph, as createSourceNode wires it with the values updateEffects
\* sets: source -> gain -> low shelf, then the dry and the wet path.
LiveGraph(e) ==
    [ chain |-> << Stage("gain", 0, 0, VolumeGainLive(e.volume)),
                   Stage("lowshelf", 120, 7, BassGainLive(e.bassBoost)) >>,
      dry   |-> << Stage("gain", 0, 0, DryGain(e.reverb)) >>,
      wet   |-> << Stage("highpass", 80, 10, 0),
                   Stage("convolver", 0, 0, e.reverb),
                   Stage("peaking", 8000, 12, PostFilterGain(e.reverb)),
                   Stage("gain", 0, 0, WetGain(e.reverb)) >>,
      rate  |-> e.tempo ]

\* The offline graph of createProcessedBuffer.
OfflineGraph(e) ==
    [ chain |-> << Stage("gain", 0, 0, VolumeGainOffline(e.volume)),
                   Stage("lowshelf", 120, 7, BassGainOffline(e.bassBoost)),
                   Stage("highshelf", 8000, 5, HighShelfGainOffline(e.bassBoost)) >>,
      dry   |-> << Stage("gain", 0, 0, DryGain(e.reverb)) >>,
      wet   |-> << Stage("highpass", 80, 10, 0),
                   Stage("convolver", 0, 0, e.reverb),
                   Stage("peaking", 8000, 12, PostFilterGain(e.reverb)),
                   Stage("gain", 0, 0, WetGain(e.reverb)) >>,
      rate  |-> e.tempo ]


(* ------------------------------ state ---------------------------------- *)
VARIABLES
    ctxState,               \* audioContextRef: "none", "suspended", "running"
    audioBufferRef,         \* 0 (null) or the decoded buffer, named by its length
    duration,               \* React state duration, ms
    stage,                  \* the live stage nodes: NoStage or their values
    nodes,                  \* AudioBufferSourceNodes, by id
    sourceNodeRef,          \* 0 (null) or a node id
    isPlayingRef,
    isPlaying,              \* React state isPlaying
    currentTimeRef,
    currentTime,            \* React state currentTime: the observable cursor
    pausedAtRef,
    effects,                \* the effects prop: the current snapshot
    lastEffectsRef,
    timers,                 \* the pending setTimeout callbacks of the debounce
    effectUpdateTimeoutRef, \* NoTimer or the timer the ref holds
    setupEffects,           \* the snapshot the memoized setupAudioGraph closes over
    interval,               \* the setInterval of the time update loop
    loading,                \* processAudioFile in flight
    pendingPlays,           \* play() calls awaiting audioContext.resume()
    seeking,                \* the position of a running seek() call
    processedAudioBuffer,   \* Studio state: the render kept for export
    audioBuffer,            \* Studio state: the imported buffer
    exported,               \* what handleExport last handed to the encoder
    playResult,             \* what the last play() call told its caller
    graphs,                 \* the graphs built for one parameter set
    mp3,                    \* one run of audioBufferToMp3
    earlier,                \* the two debounced effects of the earlier implementation
    rateLimiter,            \* a RateLimiter, the clock it reads and what it admitted
    clip                    \* a buffer, a time range, and the segments cut from it

vars == << ctxState, audioBufferRef, duration, stage, nodes, sourceNodeRef,
           isPlayingRef, isPlaying, currentTimeRef, currentTime, pausedAtRef,
           effects, lastEffectsRef, timers, effectUpdateTimeoutRef, setupEffects,
           interval, loading, pendingPlays, seeking, processedAudioBuffer,
           audioBuffer, exported, playResult, graphs, mp3, earlier, rateLimiter, clip >>

playbackVars == << sourceNodeRef, isPlayingRef, isPlaying, currentTimeRef,
                   currentTime, pausedAtRef >>
effectVars == << effects, lastEffectsRef, timers, effectUpdateTimeoutRef, setupEffects >>
studioVars == << processedAudioBuffer, audioBuffer, exported, playResult >>
\* The state of the utilities that run beside the session.
toolVars == << mp3, earlier, rateLimiter, clip >>

NodeIds == 1 .. MaxNodes

\* The files the user imports, each named by the length of its decoded buffer.
Files == {400, 200}

NoStage == [built |-> FALSE]
NoTimer == [due |-> -1]
NoInterval == [due |-> -1]
NoLoad == [phase |-> "idle"]
NoSeek == [pc |-> 0]
NoRender == [buf |-> 0]
NoGraph == [rate |-> 0]
FreeNode ==
    [st |-> "free", buf |-> 0, cur |-> FALSE, conn |-> FALSE, rate |-> 0,
     pos |-> 0, by |-> "none"]

\* A source node: st is "created", "playing" (started), "stopped" (stop() was
\* called, its ended event is queued) or "finished" (it played to the end of
\* its buffer, its ended event is queued); buf is the length of its buffer and
\* cur whether that buffer and the stage chain it was wired to are still the
\* ones the refs hold; conn is whether it is connected; pos is its playhead;
\* by names the operation that stopped it.
\* audioContext.createBufferSource(), buffer and playbackRate set.
CreatedNode(buf, rate) ==
    [st |-> "created", buf |-> buf, cur |-> TRUE, conn |-> FALSE,
     rate |-> rate, pos |-> 0, by |-> "none"]

\* A connect block that is skipped: the variant C22_NoHalfConnectedGraph has
\* to tell from Connected.
ConnectSkipped(node) == node

\* The guarded connect block: the source is wired to the stage chain when
\* every stage ref is set.
Connected(node) == IF stage # NoStage THEN [node EXCEPT !.conn = TRUE] ELSE node

FreeIds == {n \in NodeIds : nodes[n].st = "free"}
FreshId == CHOOSE n \in FreeIds : \A m \in FreeIds : n <= m

\* sourceNode.start(0, offset): the playhead starts at offset; a source started
\* at the end of its buffer has nothing to play.
Started(node, offset) ==
    [node EXCEPT !.st = IF offset >= node.buf THEN "finished" ELSE "playing",
                 !.pos = Min(offset, node.buf)]

\* sourceNode.stop(): the node stops and its ended event is queued (a node
\* that already played to its end has its event queued already).
StopNode(node, by) ==
    [node EXCEPT !.st = IF node.st = "playing" THEN "stopped" ELSE node.st,
                 !.by = IF node.st = "playing" THEN by ELSE node.by]

\* sourceNode.disconnect()
Disconnect(node) == [node EXCEPT !.conn = FALSE]

\* start() was called on the node and stop() was not.
Live(n) == nodes[n].st \in {"playing", "finished"}

\* A started source whose signal reaches the output.
Audible(n) == nodes[n].st = "playing" /\ nodes[n].conn

Idle == seeking = NoSeek

\* The hook and the page after mount.
InitProgram ==
    /\ ctxState = "none"
    /\ audioBufferRef = 0
    /\ duration = 0
    /\ stage = NoStage
    /\ nodes = [n \in NodeIds |-> FreeNode]
    /\ sourceNodeRef = 0
    /\ isPlayingRef = FALSE
    /\ isPlaying = FALSE
    /\ currentTimeRef = 0
    /\ currentTime = 0
    /\ pausedAtRef = 0
    /\ effects = DefaultEffects
    /\ lastEffectsRef = DefaultEffects
    /\ timers = {}
    /\ effectUpdateTimeoutRef = NoTimer
    /\ setupEffects = DefaultEffects
    /\ interval = NoInterval
    /\ loading = NoLoad
    /\ pendingPlays = << >>
    /\ seeking = NoSeek
    /\ processedAudioBuffer = NoRender
    /\ audioBuffer = 0
    /\ exported = NoRender
    /\ playResult = "none"

\* No conversion to MP3 has been asked for.
NoEncode == [phase |-> "idle"]

\* A timeout handle that names no pending timer.
NoHandle == [kind |-> "none"]

\* The earlier implementation's hook after mount, with no file loaded.
EarlierMounted ==
    [ loaded |-> FALSE, effects |-> DefaultEffects, lastEffectsRef |-> DefaultEffects,
      timers |-> {}, effectUpdateTimeoutRef |-> NoHandle,
      applied |-> DefaultEffects, rendered |-> NoRender ]

\* No buffer is being edited.
NoClip == [length |-> 0]

\* No RateLimiter has been constructed.
NoLimiter == [maxRequests |-> -1]

InitTools ==
    /\ mp3 = NoEncode
    /\ earlier = EarlierMounted
    /\ rateLimiter = NoLimiter
    /\ clip = NoClip

Init ==
    /\ InitProgram
    /\ InitTools
    /\ graphs = [params |-> DefaultEffects, live |-> NoGraph, offline |-> NoGraph,
                 frames |-> 0, length |-> 0, error |-> "none"]

(* ------------------------- import (Studio) ----------------------------- *)
\* The values updateEffects sets on the stage nodes for snapshot e.
UpdatedStage(st, e) ==
    [st EXCEPT !.volume = VolumeGainLive(e.volume),
               !.bass = BassGainLive(e.bassBoost),
               !.dry = DryGain(e.reverb),
               !.wet = WetGain(e.reverb),
               !.post = PostFilterGain(e.reverb)]

\* A node a ref holds, and a node made for one source: the connections of
\* the stage nodes are pairs of these.
RefNode(name) == << name, 0 >>
OwnNode(name, k) == << name, k >>

\* The connections createSourceNode makes among the stage nodes, in program
\* order: the main path, the dry path, the wet path.
ChainEdges ==
    { << RefNode("gain"), RefNode("bass") >>,
      << RefNode("bass"), RefNode("dry") >>,
      << RefNode("dry"), RefNode("analyser") >>,
      << RefNode("bass"), RefNode("pre") >>,
      << RefNode("pre"), RefNode("reverb") >>,
      << RefNode("reverb"), RefNode("post") >>,
      << RefNode("post"), RefNode("wet") >>,
      << RefNode("wet"), RefNode("analyser") >> }

\* A connect block that makes a dry and a wet gain node of its own for every
\* source, as createNewSourceNode of the earlier implementation does: the
\* variant C23_PathsDoNotAccumulate has to tell from ConnectChain.
ConnectChainOwnMix(st) ==
    IF st = NoStage THEN st
    ELSE LET k == Cardinality(st.edges)
         IN [st EXCEPT !.edges = @ \cup
                { << RefNode("gain"), RefNode("bass") >>,
                  << RefNode("bass"), OwnNode("dry", k) >>,
                  << OwnNode("dry", k), RefNode("analyser") >>,
                  << RefNode("bass"), RefNode("pre") >>,
                  << RefNode("pre"), RefNode("reverb") >>,
                  << RefNode("reverb"), RefNode("post") >>,
                  << RefNode("post"), OwnNode("wet", k) >>,
                  << OwnNode("wet", k), RefNode("analyser") >> }]

\* The guarded connect block of createSourceNode on the stage nodes: connect()
\* between two nodes that are connected already changes nothing.
ConnectChain(st) ==
    IF st = NoStage THEN st ELSE [st EXCEPT !.edges = @ \cup ChainEdges]

\* The number of signal paths from stage node a to stage node b over the
\* connections E (the live graph has no cycle).
RECURSIVE PathCount(_, _, _)
RECURSIVE PathSum(_, _, _)
PathCount(E, a, b) ==
    IF a = b THEN 1 ELSE PathSum(E, {e[2] : e \in {x \in E : x[1] = a}}, b)
PathSum(E, S, b) ==
    IF S = {} THEN 0
    ELSE LET x == CHOOSE y \in S : TRUE
         IN PathCount(E, x, b) + PathSum(E, S \ {x}, b)

\* The signal paths from the last chain stage to the output that run through
\* a gain node of the given kind ("dry" or "wet").
MixPaths(st, kind) ==
    LET mix == {e[1] : e \in {x \in st.edges : x[1][1] = kind}}
    IN Cardinality({m \in mix :
           /\ PathCount(st.edges, RefNode("bass"), m) > 0
           /\ PathCount(st.edges, m, RefNode("destination")) > 0})

\* setupAudioGraph: fresh stage nodes, the analyser connected to the
\* destination, the impulse synthesized for the closure's reverb, then
\* updateEffects of the same closure.
SetupStage(e) ==
    UpdatedStage([built |-> TRUE, volume |-> 1000000, bass |-> 0, dry |-> 1000000,
                  wet |-> 1000000, post |-> e.reverb * 3, impulse |-> e.reverb,
                  edges |-> {<< RefNode("analyser"), RefNode("destination") >>}], e)

\* The time update loop effect, re-run when one of its dependencies
\* [duration, stop, effects.tempo] changed: the previous interval is cleared
\* and a new one is set up only if isPlayingRef is set at that moment.
\* startTime is kept as elapsed = audioContext.currentTime - startTime.
TimeLoopEffect(changed, tempo, dur) ==
    interval' =
        IF ~changed THEN interval
        ELSE IF isPlayingRef
             THEN [due |-> TimeUpdateMs, elapsed |-> 0,
                   startOffset |-> currentTimeRef, tempo |-> tempo, dur |-> dur]
             ELSE NoInterval

\* handleFileImport -> processAudioFile, up to the decode: the audio context is
\* created on first use (its resume may fail and leave it suspended), and the
\* call keeps the closures of the render it was made in.
LoadStart(file) ==
    /\ Idle
    /\ loading = NoLoad
    /\ ctxState' \in (IF ctxState = "none" THEN {"running", "suspended"} ELSE {ctxState})
    /\ loading' = [phase |-> "decoding", buf |-> file,
                   effects |-> effects, setup |-> setupEffects]
    /\ UNCHANGED << audioBufferRef, duration, stage, nodes, playbackVars,
                    effectVars, interval, pendingPlays, seeking, studioVars, graphs, toolVars >>

\* decodeAudioData resolved: audioBufferRef is set, setupAudioGraph runs to its
\* end (new stage nodes replace the ones the refs held) and
\* createProcessedBuffer starts the offline render.
LoadDecoded ==
    /\ Idle
    /\ loading.phase = "decoding"
    /\ audioBufferRef' = loading.buf
    /\ duration' = loading.buf
    /\ currentTime' = 0
    /\ pausedAtRef' = 0
    /\ stage' = SetupStage(loading.setup)
    /\ nodes' = [n \in NodeIds |-> [nodes[n] EXCEPT !.cur = FALSE]]
    /\ TimeLoopEffect(duration' # duration, effects.tempo, duration')
    /\ loading' = [loading EXCEPT !.phase = "rendering"]
    /\ UNCHANGED << ctxState, sourceNodeRef, isPlayingRef, isPlaying,
                    currentTimeRef, effectVars, pendingPlays, seeking, studioVars, graphs, toolVars >>

\* startRendering resolved: onProcessedAudio(processedBuffer), and the Studio
\* page stores the returned buffer.
LoadRendered ==
    /\ Idle
    /\ loading.phase = "rendering"
    /\ processedAudioBuffer' = [buf |-> loading.buf, snap |-> loading.effects]
    /\ audioBuffer' = loading.buf
    /\ loading' = NoLoad
    /\ UNCHANGED << ctxState, audioBufferRef, duration, stage, nodes, playbackVars,
                    effectVars, interval, pendingPlays, seeking, exported,
                    playResult, graphs, toolVars >>

(* ------------------------------ play ----------------------------------- *)
\* createSourceNode: a source for the loaded buffer at the closure's tempo,
\* wired to the stage chain.
SourceNode(tempo) == Connected(CreatedNode(audioBufferRef, tempo))

\* The offset play() hands to sourceNode.start.
PlayOffset == IF pausedAtRef > 0 THEN pausedAtRef ELSE 0

\* The body of play() after the context is running.
PlayBody(tempo) ==
    IF audioBufferRef = 0
    THEN UNCHANGED << stage, nodes, playbackVars >>
    ELSE /\ FreeIds # {}
         /\ nodes' = [nodes EXCEPT ![FreshId] = Started(SourceNode(tempo), PlayOffset)]
         /\ stage' = ConnectChain(stage)
         /\ sourceNodeRef' = FreshId
         /\ currentTimeRef' = PlayOffset
         /\ isPlayingRef' = TRUE
         /\ isPlaying' = TRUE
         /\ UNCHANGED << currentTime, pausedAtRef >>

\* play() with the context running.
Play ==
    /\ Idle
    /\ ctxState = "running"
    /\ ~isPlayingRef
    /\ audioBufferRef # 0
    /\ PlayBody(effects.tempo)
    /\ playResult' = "resolved"
    /\ UNCHANGED << ctxState, audioBufferRef, duration, effectVars,
                    interval, loading, pendingPlays, seeking, processedAudioBuffer,
                    audioBuffer, exported, graphs, toolVars >>

\* play() with the context suspended: the call waits in "await resume()".
PlaySuspended ==
    /\ Idle
    /\ ctxState = "suspended"
    /\ ~isPlayingRef
    /\ Len(pendingPlays) < MaxPendingPlays
    /\ pendingPlays' = Append(pendingPlays, effects.tempo)
    /\ UNCHANGED << ctxState, audioBufferRef, duration, stage, nodes, playbackVars,
                    effectVars, interval, loading, seeking, studioVars, graphs, toolVars >>

\* resume() resolved: the waiting call goes on with the closure it was made in.
PlayResumed ==
    /\ Idle
    /\ pendingPlays # << >>
    /\ ctxState' = "running"
    /\ PlayBody(Head(pendingPlays))
    /\ pendingPlays' = Tail(pendingPlays)
    /\ playResult' = "resolved"
    /\ UNCHANGED << audioBufferRef, duration, effectVars,
                    interval, loading, seeking, processedAudioBuffer, audioBuffer,
                    exported, graphs, toolVars >>

\* resume() rejected: the catch block reports "Playback failed".
PlayResumeFailed ==
    /\ Idle
    /\ pendingPlays # << >>
    /\ ctxState = "suspended"
    /\ pendingPlays' = Tail(pendingPlays)
    /\ playResult' = "Playback failed"
    /\ UNCHANGED << ctxState, audioBufferRef, duration, stage, nodes, playbackVars,
                    effectVars, interval, loading, seeking, processedAudioBuffer,
                    audioBuffer, exported, graphs, toolVars >>

\* play() that returns without effect and without a report: no audio context
\* yet, or isPlayingRef set, or createSourceNode returning null for want of a
\* buffer.
PlayNothing ==
    /\ Idle
    /\ \/ ctxState = "none"
       \/ isPlayingRef
       \/ ctxState = "running" /\ audioBufferRef = 0
    /\ playResult' = "resolved"
    /\ UNCHANGED << ctxState, audioBufferRef, duration, stage, nodes, playbackVars,
                    effectVars, interval, loading, pendingPlays, seeking,
                    processedAudioBuffer, audioBuffer, exported, graphs, toolVars >>

\* play() whose sourceNode.start throws: createSourceNode has returned and
\* sourceNodeRef holds the new node when the catch block reports the failure.
PlayStartFails ==
    /\ Idle
    /\ ctxState = "running"
    /\ ~isPlayingRef
    /\ audioBufferRef # 0
    /\ FreeIds # {}
    /\ nodes' = [nodes EXCEPT ![FreshId] = SourceNode(effects.tempo)]
    /\ stage' = ConnectChain(stage)
    /\ sourceNodeRef' = FreshId
    /\ playResult' = "Playback failed"
    /\ UNCHANGED << ctxState, audioBufferRef, duration, isPlayingRef,
                    isPlaying, currentTimeRef, currentTime, pausedAtRef, effectVars,
                    interval, loading, pendingPlays, seeking, processedAudioBuffer,
                    audioBuffer, exported, graphs, toolVars >>

(* --------------------------- pause, stop ------------------------------- *)
\* The nodes after sourceNodeRef.current.stop(); .disconnect().
TornDown(by) ==
    IF sourceNodeRef = 0 THEN nodes
    ELSE [nodes EXCEPT ![sourceNodeRef] = Disconnect(StopNode(nodes[sourceNodeRef], by))]

Pause ==
    /\ Idle
    /\ sourceNodeRef # 0
    /\ isPlayingRef
    /\ nodes' = TornDown("pause")
    /\ sourceNodeRef' = 0
    /\ isPlayingRef' = FALSE
    /\ isPlaying' = FALSE
    /\ UNCHANGED << ctxState, audioBufferRef, duration, stage, currentTimeRef,
                    currentTime, pausedAtRef, effectVars, interval, loading,
                    pendingPlays, seeking, studioVars, graphs, toolVars >>

\* stop() with the teardown left out: the variant C9_StopPostcondition has to
\* tell from StopBody.
StopBodyKeepsSource ==
    /\ UNCHANGED << nodes, sourceNodeRef >>
    /\ isPlayingRef' = FALSE
    /\ isPlaying' = FALSE
    /\ currentTime' = 0
    /\ pausedAtRef' = 0

\* The body of stop().
StopBody ==
    /\ nodes' = TornDown("stop")
    /\ sourceNodeRef' = 0
    /\ isPlayingRef' = FALSE
    /\ isPlaying' = FALSE
    /\ currentTime' = 0
    /\ pausedAtRef' = 0

Stop ==
    /\ Idle
    /\ StopBody
    /\ UNCHANGED << ctxState, audioBufferRef, duration, stage, currentTimeRef,
                    effectVars, interval, loading, pendingPlays, seeking, studioVars,
                    graphs, toolVars >>

(* -------------------------- ended events ------------------------------- *)
\* The ended event of node n is queued.
EndQueued(n) == nodes[n].st \in {"stopped", "finished"}

\* The onended handler with setCurrentTime(0) and pausedAtRef = 0 left out:
\* the variant C10_NaturalEnd has to tell from EndedBody.
EndedBodyKeepsCursor ==
    /\ isPlaying' = FALSE
    /\ isPlayingRef' = FALSE
    /\ sourceNodeRef' = 0
    /\ UNCHANGED << currentTime, pausedAtRef >>

\* The assignments of the onended handler.
EndedBody ==
    /\ isPlaying' = FALSE
    /\ isPlayingRef' = FALSE
    /\ sourceNodeRef' = 0
    /\ currentTime' = 0
    /\ pausedAtRef' = 0

\* sourceNode.onended of node n: the handler reads the refs, not n; the node
\* whose event was dispatched is done with.
OnEnded(n) ==
    /\ Idle
    /\ EndQueued(n)
    /\ nodes' = [m \in NodeIds |->
                    IF m = n THEN FreeNode
                    ELSE IF m = sourceNodeRef THEN Disconnect(nodes[m])
                    ELSE nodes[m]]
    /\ EndedBody
    /\ UNCHANGED << ctxState, audioBufferRef, duration, stage, currentTimeRef,
                    effectVars, interval, loading, pendingPlays, seeking, studioVars,
                    graphs, toolVars >>

(* ------------------------------ seek ----------------------------------- *)
\* The requests the seek bar and the keyboard shortcuts make, ms.
SeekTargets == {-100, 100, 900}

\* Math.max(0, Math.min(duration, time))
\* A clamp without its lower bound: the variant C14_CursorInRange has to tell
\* from Clamp.
ClampUpperOnly(time) == Min(duration, time)

\* seek()'s clampedTime.
Clamp(time) == Max(0, Min(duration, time))

\* The order of the earlier implementation, teardown first: the variant
\* C1_BuildThenSwap has to tell from SeekOrder.
SeekOrderStopThenBuild ==
    << "stopOld", "disconnectOld", "create", "connect", "start", "swap" >>

\* The statements of the isPlayingRef branch of seek(), in program order.
SeekOrder == << "create", "connect", "start", "stopOld", "disconnectOld", "swap" >>

\* A seek that takes the playing branch whatever isPlayingRef says: the
\* variant C15_PausedSeekOnlyMovesCursor has to tell from SeekCall.
SeekCallAlwaysRebuilds(time) ==
    /\ Idle
    /\ ctxState # "none"
    /\ audioBufferRef # 0
    /\ currentTime' = Clamp(time)
    /\ currentTimeRef' = Clamp(time)
    /\ FreeIds # {}
    /\ seeking' = [pc |-> 1, new |-> FreshId, t |-> Clamp(time),
                   tempo |-> effects.tempo]
    /\ UNCHANGED << ctxState, audioBufferRef, duration, stage, nodes, sourceNodeRef,
                    isPlayingRef, isPlaying, pausedAtRef, effectVars, interval,
                    loading, pendingPlays, studioVars, graphs, toolVars >>

\* seek(time), entry: the guard, the clamp, the cursor, and either the paused
\* branch (the whole call) or the entry into the playing branch.
SeekCall(time) ==
    /\ Idle
    /\ ctxState # "none"
    /\ audioBufferRef # 0
    /\ currentTime' = Clamp(time)
    /\ currentTimeRef' = Clamp(time)
    /\ IF isPlayingRef
       THEN /\ FreeIds # {}
            /\ seeking' = [pc |-> 1, new |-> FreshId, t |-> Clamp(time),
                           tempo |-> effects.tempo]
            /\ UNCHANGED pausedAtRef
       ELSE /\ pausedAtRef' = Clamp(time)
            /\ UNCHANGED seeking
    /\ UNCHANGED << ctxState, audioBufferRef, duration, stage, nodes, sourceNodeRef,
                    isPlayingRef, isPlaying, effectVars, interval, loading,
                    pendingPlays, studioVars, graphs, toolVars >>

\* One statement of the playing branch, on the new node and the node
\* sourceNodeRef holds.
SeekStatement(step) ==
    CASE step = "create" ->
           /\ nodes' = [nodes EXCEPT ![seeking.new] =
                            CreatedNode(audioBufferRef, seeking.tempo)]
           /\ UNCHANGED << stage, sourceNodeRef >>
      [] step = "connect" ->
           /\ nodes' = [nodes EXCEPT ![seeking.new] = Connected(@)]
           /\ stage' = ConnectChain(stage)
           /\ UNCHANGED sourceNodeRef
      [] step = "start" ->
           /\ nodes' = [nodes EXCEPT ![seeking.new] = Started(@, seeking.t)]
           /\ UNCHANGED << stage, sourceNodeRef >>
      [] step = "stopOld" ->
           /\ nodes' = IF sourceNodeRef = 0 THEN nodes
                       ELSE [nodes EXCEPT ![sourceNodeRef] = StopNode(@, "seek")]
           /\ UNCHANGED << stage, sourceNodeRef >>
      [] step = "disconnectOld" ->
           /\ nodes' = IF sourceNodeRef = 0 THEN nodes
                       ELSE [nodes EXCEPT ![sourceNodeRef] = Disconnect(@)]
           /\ UNCHANGED << stage, sourceNodeRef >>
      [] step = "swap" ->
           /\ sourceNodeRef' = seeking.new
           /\ UNCHANGED << stage, nodes >>

\* seek() runs to completion: while it is running no other handler is.
SeekStep ==
    /\ ~Idle
    /\ SeekStatement(SeekOrder[seeking.pc])
    /\ seeking' = IF seeking.pc = Len(SeekOrder) THEN NoSeek
                  ELSE [seeking EXCEPT !.pc = @ + 1]
    /\ UNCHANGED << ctxState, audioBufferRef, duration, isPlayingRef,
                    isPlaying, currentTimeRef, currentTime, pausedAtRef, effectVars,
                    interval, loading, pendingPlays, studioVars, graphs, toolVars >>

\* seek(time) while playing whose newSourceNode.start throws (a time that is
\* not finite, say): the cursor is already set, the exception leaves seek()
\* before the old node is touched, and the new node, never started and held
\* by no ref, is dropped.
SeekFails(time) ==
    /\ Idle
    /\ ctxState # "none"
    /\ audioBufferRef # 0
    /\ isPlayingRef
    /\ currentTime' = Clamp(time)
    /\ currentTimeRef' = Clamp(time)
    /\ UNCHANGED << ctxState, audioBufferRef, duration, stage, nodes, sourceNodeRef,
                    isPlayingRef, isPlaying, pausedAtRef, effectVars, interval,
                    loading, pendingPlays, seeking, studioVars, graphs, toolVars >>

(* ------------------------ parameter changes ---------------------------- *)
\* The debounce without its clearTimeout: the variant C7_Debounce has to tell
\* from TimersAfterChange.
TimersNotCleared(s) ==
    timers \cup (IF s # lastEffectsRef /\ ctxState # "none"
                 THEN {[due |-> EffectDebounceMs, snap |-> s]} ELSE {})

\* The debounce effect on a new snapshot s: the pending timer the ref holds is
\* cleared, and a new one is set when s differs from lastEffectsRef and the
\* audio context exists.
TimersAfterChange(s) ==
    (timers \ {effectUpdateTimeoutRef})
        \cup (IF s # lastEffectsRef /\ ctxState # "none"
              THEN {[due |-> EffectDebounceMs, snap |-> s]} ELSE {})

\* The handle the ref holds after the effect ran.  A handle whose timer was
\* cleared or has fired is as good as none: clearTimeout ignores it.
TimeoutRefAfterChange(s) ==
    IF s # lastEffectsRef /\ ctxState # "none"
    THEN [due |-> EffectDebounceMs, snap |-> s] ELSE NoTimer

\* handleEffectsChange(s) -> setEffects(s), and the effects of the render that
\* follows: the debounce and the time update loop.
SetEffects(s) ==
    /\ Idle
    /\ s # effects
    /\ effects' = s
    /\ timers' = TimersAfterChange(s)
    /\ effectUpdateTimeoutRef' = TimeoutRefAfterChange(s)
    /\ setupEffects' = IF s.reverb # effects.reverb THEN s ELSE setupEffects
    /\ TimeLoopEffect(s.tempo # effects.tempo, s.tempo, duration)
    /\ UNCHANGED << ctxState, audioBufferRef, duration, stage, nodes, playbackVars,
                    lastEffectsRef, loading, pendingPlays, seeking, studioVars, graphs, toolVars >>

\* A parameter application that rebuilds the stage nodes as setupAudioGraph
\* does: the variant C8_HotSwapInPlace has to tell from UpdateEffects.
UpdateEffectsRebuild(e) == IF stage = NoStage THEN stage ELSE SetupStage(e)

\* updateEffects of the closure that holds snapshot e.
UpdateEffects(e) == IF stage = NoStage THEN stage ELSE UpdatedStage(stage, e)

\* The setTimeout callback of timer t.
TimerCallback(t) ==
    /\ Idle
    /\ t \in timers
    /\ t.due = 0
    /\ stage' = UpdateEffects(t.snap)
    /\ lastEffectsRef' = t.snap
    /\ timers' = timers \ {t}
    /\ effectUpdateTimeoutRef' =
           IF effectUpdateTimeoutRef = t THEN NoTimer ELSE effectUpdateTimeoutRef
    /\ UNCHANGED << ctxState, audioBufferRef, duration, nodes, playbackVars, effects,
                    setupEffects, interval, loading, pendingPlays, seeking,
                    studioVars, graphs, toolVars >>

\* A due debounce timer fires.
EffectTimerFire == \E t \in timers : TimerCallback(t)

(* ------------------------- time update loop ---------------------------- *)
\* startOffset + (audioContext.currentTime - startTime) * effects.tempo
NewTime == interval.startOffset + (interval.elapsed * interval.tempo) \div 10

\* The setInterval callback.
IntervalFire ==
    /\ Idle
    /\ interval # NoInterval
    /\ interval.due = 0
    /\ interval' = [interval EXCEPT !.due = TimeUpdateMs]
    /\ IF ctxState # "none" /\ sourceNodeRef # 0
       THEN IF NewTime <= interval.dur
            THEN /\ currentTimeRef' = NewTime
                 /\ currentTime' = NewTime
                 /\ UNCHANGED << nodes, sourceNodeRef, isPlayingRef, isPlaying,
                                 pausedAtRef >>
            ELSE /\ StopBody
                 /\ UNCHANGED currentTimeRef
       ELSE UNCHANGED << nodes, playbackVars >>
    /\ UNCHANGED << ctxState, audioBufferRef, duration, stage, effectVars, loading,
                    pendingPlays, seeking, studioVars, graphs, toolVars >>

(* ------------------------------ time ----------------------------------- *)
\* The playhead of a started source after TickMs at its playback rate; at the
\* end of the buffer the source finishes and its ended event is queued.
Advance(node) ==
    IF node.st # "playing" THEN node
    ELSE IF node.pos + (TickMs * node.rate) \div 10 >= node.buf
         THEN [node EXCEPT !.st = "finished", !.pos = node.buf]
         ELSE [node EXCEPT !.pos = @ + (TickMs * node.rate) \div 10]

\* The elapsed time of the interval's closure; past the point where NewTime
\* exceeds the duration every further reading takes the same branch.
Elapse(i) ==
    IF i = NoInterval THEN i
    ELSE [i EXCEPT !.due = @ - TickMs,
                   !.elapsed = IF i.startOffset + (@ * i.tempo) \div 10 > i.dur
                               THEN @ ELSE @ + TickMs]

TimeMatters ==
    \/ timers # {}
    \/ interval # NoInterval
    \/ \E n \in NodeIds : nodes[n].st = "playing"

\* TickMs pass.  Queued events and due callbacks are dispatched first.
Tick ==
    /\ Idle
    /\ TimeMatters
    /\ \A n \in NodeIds : ~EndQueued(n)
    /\ \A t \in timers : t.due > 0
    /\ interval # NoInterval => interval.due > 0
    /\ nodes' = [n \in NodeIds |-> Advance(nodes[n])]
    /\ timers' = {[t EXCEPT !.due = @ - TickMs] : t \in timers}
    /\ effectUpdateTimeoutRef' =
           IF effectUpdateTimeoutRef = NoTimer THEN NoTimer
           ELSE [effectUpdateTimeoutRef EXCEPT !.due = @ - TickMs]
    /\ interval' = Elapse(interval)
    /\ UNCHANGED << ctxState, audioBufferRef, duration, stage, playbackVars, effects,
                    lastEffectsRef, setupEffects, loading, pendingPlays, seeking,
                    studioVars, graphs, toolVars >>

(* ------------------------------ export --------------------------------- *)
\* handleExport's bufferToExport: the stored render, or a render of the
\* current snapshot when none is stored.
BufferToExport ==
    IF processedAudioBuffer # NoRender THEN processedAudioBuffer
    ELSE [buf |-> audioBufferRef, snap |-> effects]

\* handleExport
Export ==
    /\ Idle
    /\ audioBuffer # 0
    /\ exported' = BufferToExport
    /\ UNCHANGED << ctxState, audioBufferRef, duration, stage, nodes, playbackVars,
                    effectVars, interval, loading, pendingPlays, seeking,
                    processedAudioBuffer, audioBuffer, playResult, graphs, toolVars >>

(* ------------------------ graph construction --------------------------- *)
\* The parameter grid of the graph comparison, in tenths.
Grid == {0, 3, 5, 7, 10}
\* The range the tempo slider offers, in percent.
TempoMinPercent == 25
TempoMaxPercent == 200

\* Tempo in tenths: values of the slider's range, and 0.2 and 3.0 outside it.
GridEffects == [reverb : Grid, bassBoost : Grid, tempo : {2, 5, 8, 10, 20, 30}, volume : Grid]

\* Frame counts of the buffers rendered: 5 s and 1 s at 44100 Hz, a few
\* frames, and none.
FrameCounts == {220500, 44100, 7, 0}

\* The length, in frames, of the OfflineAudioContext createProcessedBuffer
\* renders into, and so of the buffer startRendering returns.
RenderLength(frames, tempo) == frames

\* createSourceNode + updateEffects for the parameters held.
BuildLive ==
    /\ graphs' = [graphs EXCEPT !.live = LiveGraph(graphs.params)]
    /\ UNCHANGED << ctxState, audioBufferRef, duration, stage, nodes, playbackVars,
                    effectVars, interval, loading, pendingPlays, seeking, studioVars, toolVars >>

\* createProcessedBuffer for the parameters held.  The OfflineAudioContext
\* constructor, its first statement, throws NotSupportedError for a length of
\* 0 frames.
BuildOffline ==
    /\ graphs' =
           IF RenderLength(graphs.frames, graphs.params.tempo) = 0
           THEN [graphs EXCEPT !.error = "NotSupportedError"]
           ELSE [graphs EXCEPT !.offline = OfflineGraph(graphs.params),
                               !.length = RenderLength(graphs.frames, graphs.params.tempo)]
    /\ UNCHANGED << ctxState, audioBufferRef, duration, stage, nodes, playbackVars,
                    effectVars, interval, loading, pendingPlays, seeking, studioVars, toolVars >>

(* ------------------------- advanced stages ----------------------------- *)
\* The EQ, limiter and attenuator stages exist in the earlier implementation
\* of the hook only (createEQFilters, createLimiter, createAttenuator,
\* createNewSourceNode, createProcessedBuffer); the current one accepts
\* AdvancedAudioEffects and builds none of them.
\* An optional field is the empty set when absent and {v} when given.
Value(opt) == CHOOSE v \in opt : TRUE

\* JavaScript's  x || d  on an optional number: d when x is absent, and also
\* when x is 0.
OrDefault(opt, d) == IF opt = {} THEN d ELSE IF Value(opt) = 0 THEN d ELSE Value(opt)

\* advancedEffects.flag && advancedEffects.audioProcessingEnabled !== false
Gate(flag, enabled) == flag = {TRUE} /\ enabled # {FALSE}

\* sliderToDb, sliders in tenths: (value - 0.5) * 40.
SliderToDb(value) == (value - 5) * 4

\* Math.pow(10, gainDb / 20) in millionths, tabulated for the gains used.
DbToLinear(db) ==
    CASE db = 0 -> 1000000
      [] db = 6 -> 1995262
      [] db = 10 -> 3162278

\* The five EQ biquads in series, with the gains updateEQFilters and
\* createProcessedBuffer set.
EqStages(adv) ==
    << Stage("lowshelf", 60, 10, SliderToDb(OrDefault(adv.eqLow, 5))),
       Stage("peaking", 250, 10, SliderToDb(OrDefault(adv.eqLowMid, 5))),
       Stage("peaking", 1000, 10, SliderToDb(OrDefault(adv.eqMid, 5))),
       Stage("peaking", 4000, 10, SliderToDb(OrDefault(adv.eqHighMid, 5))),
       Stage("highshelf", 16000, 10, SliderToDb(OrDefault(adv.eqHigh, 5))) >>

\* createLimiter: a compressor whose threshold (val, in dB) is
\* limiterThreshold || -1.
LimiterStage(adv) == Stage("limiter", 0, 0, OrDefault(adv.limiterThreshold, -1))

\* createAttenuator: a gain of 10^(gainDb/20) with gainDb = attenuatorGain || 10.
AttenuatorStage(adv) == Stage("attenuator", 0, 0, DbToLinear(OrDefault(adv.attenuatorGain, 10)))

\* The stages between the bass high shelf and the dry/wet split: nothing
\* unless the key eqLow is in effects, else the EQ, then the limiter and the
\* attenuator when their gates are open.
AdvancedStages(adv) ==
    IF adv.eqLow = {} THEN << >>
    ELSE EqStages(adv)
           \o (IF Gate(adv.limiter, adv.audioProcessingEnabled)
               THEN << LimiterStage(adv) >> ELSE << >>)
           \o (IF Gate(adv.attenuator, adv.audioProcessingEnabled)
               THEN << AttenuatorStage(adv) >> ELSE << >>)

\* The advanced parameter sets built: sliders in tenths, dB in whole numbers.
OptFlag == { {}, {TRUE}, {FALSE} }
AdvancedParams ==
    [ eqLow : { {}, {0}, {5}, {10} }, eqLowMid : { {}, {5} }, eqMid : { {}, {0}, {10} },
      eqHighMid : { {}, {5} }, eqHigh : { {}, {5} },
      limiter : OptFlag, limiterThreshold : { {}, {0}, {-6} },
      attenuator : OptFlag, attenuatorGain : { {}, {0}, {6} },
      audioProcessingEnabled : OptFlag ]

\* createNewSourceNode with advanced parameters.
BuildAdvancedLive ==
    /\ graphs' = [graphs EXCEPT !.live = [chain |-> AdvancedStages(graphs.params),
                                          rate |-> DefaultEffects.tempo]]
    /\ UNCHANGED << ctxState, audioBufferRef, duration, stage, nodes, playbackVars,
                    effectVars, interval, loading, pendingPlays, seeking, studioVars, toolVars >>

\* createProcessedBuffer with advanced parameters.
BuildAdvancedOffline ==
    /\ graphs' = [graphs EXCEPT !.offline = [chain |-> AdvancedStages(graphs.params),
                                             rate |-> DefaultEffects.tempo]]
    /\ UNCHANGED << ctxState, audioBufferRef, duration, stage, nodes, playbackVars,
                    effectVars, interval, loading, pendingPlays, seeking, studioVars, toolVars >>

(* ---------------------------- specifications --------------------------- *)
\* The file of the playback specifications.
PlaybackFiles == {400}

\* The tempo is chosen before the first import.
SetTempo(s) == ctxState = "none" /\ SetEffects(s)

\* The first import of the session: the specifications of playback and of
\* parameter changes follow one file.
FirstImport(f) == audioBufferRef = 0 /\ LoadStart(f)

\* Playback: import, transport, seek, ended events, time.
NextPlayback ==
    \/ \E f \in PlaybackFiles : FirstImport(f)
    \/ LoadDecoded
    \/ LoadRendered
    \/ Play
    \/ PlaySuspended
    \/ PlayResumed
    \/ PlayResumeFailed
    \/ PlayNothing
    \/ Pause
    \/ Stop
    \/ \E n \in NodeIds : OnEnded(n)
    \/ \E time \in SeekTargets : SeekCall(time)
    \/ SeekStep
    \/ \E s \in TempoSnapshots : SetTempo(s)
    \/ Tick

SpecPlayback == Init /\ [][NextPlayback]_vars

\* Failures: transport and seek with calls that throw part-way.
NextFailures ==
    \/ \E f \in PlaybackFiles : FirstImport(f)
    \/ LoadDecoded
    \/ LoadRendered
    \/ Play
    \/ PlaySuspended
    \/ PlayResumed
    \/ PlayResumeFailed
    \/ PlayStartFails
    \/ Pause
    \/ \E n \in NodeIds : OnEnded(n)
    \/ \E time \in SeekTargets : SeekCall(time)
    \/ SeekStep
    \/ \E time \in SeekTargets : SeekFails(time)
    \/ Tick

SpecFailures == Init /\ [][NextFailures]_vars

\* The first import, or the import of a file shorter than the loaded one: the
\* imports after which a cursor of the old file lies beyond the new duration.
ImportShorter(f) == (audioBufferRef = 0 \/ f < audioBufferRef) /\ LoadStart(f)

\* The range of the cursor: a tempo chosen up front, imports at any time,
\* transport, seek and the time update loop a change of duration sets up.
NextRange ==
    \/ \E f \in Files : ImportShorter(f)
    \/ LoadDecoded
    \/ LoadRendered
    \/ Play
    \/ Pause
    \/ Stop
    \/ \E n \in NodeIds : OnEnded(n)
    \/ \E time \in SeekTargets : SeekCall(time)
    \/ SeekStep
    \/ \E s \in TempoSnapshots : SetTempo(s)
    \/ IntervalFire
    \/ Tick

SpecRange == Init /\ [][NextRange]_vars

\* The advanced stages built for every advanced parameter set.
InitAdvanced ==
    /\ InitProgram
    /\ InitTools
    /\ \E a \in AdvancedParams :
           graphs = [params |-> a, live |-> NoGraph, offline |-> NoGraph,
                     frames |-> 0, length |-> 0, error |-> "none"]

NextAdvanced == BuildAdvancedLive \/ BuildAdvancedOffline

SpecAdvanced == InitAdvanced /\ [][NextAdvanced]_vars

\* The audio clock: a file long enough for the time update loop to come due
\* several times while it plays, transport, tempo changes at any time.
LongFiles == {800}

NextClock ==
    \/ \E f \in LongFiles : FirstImport(f)
    \/ LoadDecoded
    \/ LoadRendered
    \/ Play
    \/ Pause
    \/ Stop
    \/ \E n \in NodeIds : OnEnded(n)
    \/ \E s \in TempoSnapshots : SetEffects(s)
    \/ EffectTimerFire
    \/ IntervalFire
    \/ Tick

SpecClock == Init /\ [][NextClock]_vars

\* Renders: one import, parameter changes and export, with the steps the
\* program takes by itself (promise resolutions, timer callbacks, the passing
\* of time) taken whenever they stay possible.
NextRender ==
    \/ \E f \in PlaybackFiles : FirstImport(f)
    \/ LoadDecoded
    \/ LoadRendered
    \/ \E s \in Snapshots : SetEffects(s)
    \/ EffectTimerFire
    \/ Tick
    \/ Export

SpecRender ==
    /\ Init
    /\ [][NextRender]_vars
    /\ WF_vars(LoadDecoded)
    /\ WF_vars(LoadRendered)
    /\ WF_vars(EffectTimerFire)
    /\ WF_vars(Tick)

\* The cursor: transport, tempo changes at any time, the time update loop.
NextCursor ==
    \/ \E f \in PlaybackFiles : FirstImport(f)
    \/ LoadDecoded
    \/ LoadRendered
    \/ Play
    \/ Pause
    \/ Stop
    \/ \E n \in NodeIds : OnEnded(n)
    \/ \E s \in TempoSnapshots : SetEffects(s)
    \/ EffectTimerFire
    \/ IntervalFire
    \/ Tick

SpecCursor == Init /\ [][NextCursor]_vars

\* Parameter changes: import, play / pause / stop, volume and reverb, time.
NextEffects ==
    \/ \E f \in PlaybackFiles : FirstImport(f)
    \/ LoadDecoded
    \/ LoadRendered
    \/ Play
    \/ Pause
    \/ Stop
    \/ \E n \in NodeIds : OnEnded(n)
    \/ \E s \in StageSnapshots : SetEffects(s)
    \/ EffectTimerFire
    \/ Tick

SpecEffects == Init /\ [][NextEffects]_vars

\* Export: import, parameter changes, export.
NextExport ==
    \/ \E f \in Files : LoadStart(f)
    \/ LoadDecoded
    \/ LoadRendered
    \/ \E s \in Snapshots : SetEffects(s)
    \/ EffectTimerFire
    \/ Tick
    \/ Export

SpecExport == Init /\ [][NextExport]_vars

\* Graph construction over the parameter grid.
InitGraph ==
    /\ InitProgram
    /\ InitTools
    /\ \E e \in GridEffects, f \in FrameCounts :
           graphs = [params |-> e, live |-> NoGraph, offline |-> NoGraph,
                     frames |-> f, length |-> 0, error |-> "none"]

NextGraph == BuildLive \/ BuildOffline

SpecGraph == InitGraph /\ [][NextGraph]_vars

(* --------------------------- MP3 conversion ---------------------------- *)
\* audioBufferToMp3's blockSize, 1152 frames in the source, scaled down.
BlockSize == 3
\* The longest buffer converted, in frames: two whole blocks and a part.
MaxFrames == 7

\* Float32 samples in thousandths: beyond full scale on both sides, full
\* scale, small values, and the NaN a Float32Array can hold.
NaN == -1000000000
SampleValues == << -2000, -1000, -250, 0, 1, 250, 1000, 1500, NaN >>

\* The buffers converted: 0..MaxFrames frames of 1, 2 or 3 channels, the
\* samples running through SampleValues from a starting point.
Mp3Buffers ==
    [ length : 0..MaxFrames, numberOfChannels : {1, 2, 3}, shift : 0..(Len(SampleValues) - 1) ]

\* buffer.getChannelData(channel)[i], channel and i counted from 0.
ChannelData(buffer, channel, i) ==
    SampleValues[((i * buffer.numberOfChannels + channel + buffer.shift) % Len(SampleValues)) + 1]

\* The conversion without its clamp: the variant C34_ClampedInterleavedPcm
\* has to tell from ClampSample.
ClampSkipped(s) == s

\* Math.max(-1, Math.min(1, sample)); NaN stays NaN.
ClampSample(s) == IF s = NaN THEN NaN ELSE Max(-1000, Min(1000, s))

\* The store of a number into an Int16Array element: NaN becomes 0, the
\* fraction is dropped towards zero, the rest wraps modulo 2^16.
ToInt16(thousandths) ==
    IF thousandths = NaN THEN 0
    ELSE LET t == IF thousandths >= 0 THEN thousandths \div 1000
                  ELSE 0 - ((0 - thousandths) \div 1000)
             w == t % 65536
         IN  IF w >= 32768 THEN w - 65536 ELSE w

\* samples[sampleIndex++] = sample * 0x7FFF
Pcm(s) == ToInt16(IF ClampSample(s) = NaN THEN NaN ELSE ClampSample(s) * 32767)

\* The first loop: frame by frame, channel by channel.
Interleaved(buffer) ==
    [ k \in 1..(buffer.length * buffer.numberOfChannels) |->
          Pcm(ChannelData(buffer, (k - 1) % buffer.numberOfChannels,
                                  (k - 1) \div buffer.numberOfChannels)) ]

\* sampleChunk[x] || 0 for the chunk that starts at sample i (from 0).
ChunkAt(samples, i, channels, x) ==
    IF x < BlockSize * channels /\ i + x < Len(samples) THEN samples[i + x + 1] ELSE 0

\* The arrays one pass of the block loop hands to encodeBuffer: always
\* blockSize long, zero where the loop wrote nothing.
BlockCall(samples, i, channels) ==
    IF channels = 2
    THEN [ left  |-> [ j \in 1..BlockSize |->
                         IF i + (j - 1) * 2 + 1 < Len(samples)
                         THEN ChunkAt(samples, i, channels, (j - 1) * 2) ELSE 0 ],
           right |-> [ j \in 1..BlockSize |->
                         IF i + (j - 1) * 2 + 1 < Len(samples)
                         THEN ChunkAt(samples, i, channels, (j - 1) * 2 + 1) ELSE 0 ] ]
    ELSE [ left  |-> [ j \in 1..BlockSize |->
                         IF i + (j - 1) < Len(samples)
                         THEN ChunkAt(samples, i, channels, j - 1) ELSE 0 ],
           right |-> << >> ]

\* audioBufferToMp3 up to the block loop: the Int16Array is filled.
ConvertSamples ==
    /\ mp3.phase = "convert"
    /\ mp3' = [mp3 EXCEPT !.phase = "encode", !.samples = Interleaved(mp3.buffer)]
    /\ UNCHANGED << ctxState, audioBufferRef, duration, stage, nodes, playbackVars,
                    effectVars, interval, loading, pendingPlays, seeking, studioVars,
                    graphs, earlier, rateLimiter, clip >>

\* One pass of the block loop.
EncodeBlock ==
    /\ mp3.phase = "encode"
    /\ mp3.i < Len(mp3.samples)
    /\ mp3' = [mp3 EXCEPT
                 !.calls = Append(@, BlockCall(mp3.samples, mp3.i, mp3.buffer.numberOfChannels)),
                 !.i = @ + BlockSize * mp3.buffer.numberOfChannels]
    /\ UNCHANGED << ctxState, audioBufferRef, duration, stage, nodes, playbackVars,
                    effectVars, interval, loading, pendingPlays, seeking, studioVars,
                    graphs, earlier, rateLimiter, clip >>

\* The block loop is over: flush and return the blob.
FlushEncoder ==
    /\ mp3.phase = "encode"
    /\ mp3.i >= Len(mp3.samples)
    /\ mp3' = [mp3 EXCEPT !.phase = "done"]
    /\ UNCHANGED << ctxState, audioBufferRef, duration, stage, nodes, playbackVars,
                    effectVars, interval, loading, pendingPlays, seeking, studioVars,
                    graphs, earlier, rateLimiter, clip >>

\* The conversion of every buffer of Mp3Buffers.
InitEncode ==
    /\ InitProgram
    /\ graphs = [params |-> DefaultEffects, live |-> NoGraph, offline |-> NoGraph,
                 frames |-> 0, length |-> 0, error |-> "none"]
    /\ earlier = EarlierMounted
    /\ rateLimiter = NoLimiter
    /\ clip = NoClip
    /\ \E b \in Mp3Buffers :
           mp3 = [phase |-> "convert", buffer |-> b, samples |-> << >>, i |-> 0,
                  calls |-> << >>]

NextEncode == ConvertSamples \/ EncodeBlock \/ FlushEncoder

SpecEncode == InitEncode /\ [][NextEncode]_vars

(* ------------- debounced effects, earlier implementation --------------- *)
\* The earlier implementation has two effects that run when the parameters
\* change, the debounced live update and the debounced re-render, and both
\* keep their timeout handle in effectUpdateTimeoutRef.
SessionVars == << ctxState, audioBufferRef, duration, stage, nodes, playbackVars,
                  effectVars, interval, loading, pendingPlays, seeking, studioVars,
                  graphs >>

\* clearTimeout(effectUpdateTimeoutRef.current)
Cleared(timers0, handle) == timers0 \ {handle}

\* The body of the live update effect for parameters s: it clears the handle
\* and, when s differs from lastEffectsRef, sets a timer for updateEffects.
LiveEffectBody(d, s) ==
    IF s # d.lastEffectsRef
    THEN [d EXCEPT !.timers = Cleared(d.timers, d.effectUpdateTimeoutRef)
                                  \cup {[kind |-> "live", snap |-> s]},
                   !.effectUpdateTimeoutRef = [kind |-> "live", snap |-> s]]
    ELSE [d EXCEPT !.timers = Cleared(d.timers, d.effectUpdateTimeoutRef),
                   !.effectUpdateTimeoutRef = NoHandle]

\* The body of the re-process effect for parameters s: with a buffer loaded
\* it clears the handle and sets a timer for createProcessedBuffer.
ReprocessEffectBody(d, s) ==
    IF d.loaded
    THEN [d EXCEPT !.timers = Cleared(d.timers, d.effectUpdateTimeoutRef)
                                  \cup {[kind |-> "render", snap |-> s]},
                   !.effectUpdateTimeoutRef = [kind |-> "render", snap |-> s]]
    ELSE d

\* The cleanup either effect returns.
EffectCleanup(d) ==
    [d EXCEPT !.timers = Cleared(d.timers, d.effectUpdateTimeoutRef),
              !.effectUpdateTimeoutRef = NoHandle]

\* processAudioFile: the buffer is stored, the graph set up and the first
\* render made with the parameters of the moment.
EarlierImport ==
    /\ ~earlier.loaded
    /\ earlier' = [earlier EXCEPT !.loaded = TRUE,
                                  !.rendered = [buf |-> 1, snap |-> earlier.effects]]
    /\ UNCHANGED << SessionVars, mp3, rateLimiter, clip >>

\* The parameters change to s: React runs the cleanups of both effects, then
\* their bodies in the order of declaration.
EarlierSetEffects(s) ==
    /\ s # earlier.effects
    /\ earlier' = ReprocessEffectBody(
                      LiveEffectBody(
                          EffectCleanup(EffectCleanup([earlier EXCEPT !.effects = s])), s), s)
    /\ UNCHANGED << SessionVars, mp3, rateLimiter, clip >>

\* A pending timer fires: updateEffects for the live one, createProcessedBuffer
\* and onProcessedAudio for the render one.
EarlierTimerFire ==
    \E t \in earlier.timers :
        /\ earlier' =
               IF t.kind = "live"
               THEN [earlier EXCEPT !.timers = @ \ {t},
                                    !.applied = t.snap,
                                    !.lastEffectsRef = t.snap]
               ELSE [earlier EXCEPT !.timers = @ \ {t},
                                    !.rendered = [buf |-> 1, snap |-> t.snap]]
        /\ UNCHANGED << SessionVars, mp3, rateLimiter, clip >>

InitDebounce ==
    /\ InitProgram
    /\ graphs = [params |-> DefaultEffects, live |-> NoGraph, offline |-> NoGraph,
                 frames |-> 0, length |-> 0, error |-> "none"]
    /\ mp3 = NoEncode
    /\ earlier = EarlierMounted
    /\ rateLimiter = NoLimiter
    /\ clip = NoClip

NextDebounce ==
    \/ EarlierImport
    \/ \E s \in Snapshots : EarlierSetEffects(s)
    \/ EarlierTimerFire

SpecDebounce == InitDebounce /\ [][NextDebounce]_vars

(* ----------------------------- RateLimiter ----------------------------- *)
\* The last reading of Date.now() modelled, in ms.
MaxClock == 4
\* The largest maxRequests and windowMs a limiter is constructed with.
MaxRequestsBound == 2
MaxWindowMs == 3

\* The keys asked about: the one SecureFileUpload uses and another.
LimiterKeys == {"file-upload", "other"}

\* requests.filter(time => time > windowStart), on a sequence of times.
RECURSIVE Recent(_, _)
Recent(times, windowStart) ==
    IF times = << >> THEN << >>
    ELSE IF Head(times) > windowStart
         THEN << Head(times) >> \o Recent(Tail(times), windowStart)
         ELSE Recent(Tail(times), windowStart)

\* isAllowed(key): the answer, and the times the map holds for key after the
\* call.  requests[key] is << >> for a key the map does not have; the map
\* never holds an empty array.
Allowed(r, key) ==
    IF r.requests[key] = << >> THEN TRUE
    ELSE Len(Recent(r.requests[key], r.now - r.windowMs)) < r.maxRequests

RequestsAfter(r, key) ==
    IF r.requests[key] = << >> THEN << r.now >>
    ELSE IF Allowed(r, key)
         THEN Append(Recent(r.requests[key], r.now - r.windowMs), r.now)
         ELSE r.requests[key]

\* A call of isAllowed(key); admitted records the time of every call answered
\* true.
IsAllowed(key) ==
    /\ rateLimiter # NoLimiter
    /\ rateLimiter' =
           [rateLimiter EXCEPT
              !.requests[key] = RequestsAfter(rateLimiter, key),
              !.admitted[key] = IF Allowed(rateLimiter, key)
                                THEN Append(@, rateLimiter.now) ELSE @]
    /\ UNCHANGED << SessionVars, mp3, earlier, clip >>

\* Date.now() moves on.
ClockAdvance ==
    /\ rateLimiter # NoLimiter
    /\ rateLimiter.now < MaxClock
    /\ rateLimiter' = [rateLimiter EXCEPT !.now = @ + 1]
    /\ UNCHANGED << SessionVars, mp3, earlier, clip >>

\* new RateLimiter(maxRequests, windowMs)
InitLimiter ==
    /\ InitProgram
    /\ graphs = [params |-> DefaultEffects, live |-> NoGraph, offline |-> NoGraph,
                 frames |-> 0, length |-> 0, error |-> "none"]
    /\ mp3 = NoEncode
    /\ earlier = EarlierMounted
    /\ clip = NoClip
    /\ \E m \in 0..MaxRequestsBound, w \in 1..MaxWindowMs :
           rateLimiter = [ maxRequests |-> m, windowMs |-> w, now |-> 0,
                           requests |-> [k \in LimiterKeys |-> << >>],
                           admitted |-> [k \in LimiterKeys |-> << >>] ]

NextLimiter ==
    \/ \E key \in LimiterKeys : IsAllowed(key)
    \/ ClockAdvance

SpecLimiter == InitLimiter /\ [][NextLimiter]_vars

(* ------------------------- audio buffer utilities ---------------------- *)
\* The longest buffer edited, in frames.
MaxClipFrames == 4
\* Times are counted in ticks; a frame lasts TicksPerFrame of them, so that a
\* time can fall inside a frame.
TicksPerFrame == 2

\* A buffer of two channels whose samples all differ.
ClipBuffer(length) == [ c \in {0, 1} |-> [ i \in 1..length |-> 10 * c + i ] ]

\* Math.floor(time * buffer.sampleRate)
SampleIndex(time) == time \div TicksPerFrame

\* clampedStart and clampedEnd of extractAudioSegment / removeAudioSegment.
ClampedStart(length, startTime) == Max(0, Min(length, SampleIndex(startTime)))
ClampedEnd(length, startTime, endTime) ==
    Max(ClampedStart(length, startTime), Min(length, SampleIndex(endTime)))

\* What a utility returns: a buffer (its length and channel data), or the
\* message of the Error it throws.
Returned(length, data) == [error |-> "none", length |-> length, data |-> data]
Thrown(message) == [error |-> message, length |-> 0, data |-> ClipBuffer(0)]
NotCalled == [error |-> "not called", length |-> 0, data |-> ClipBuffer(0)]

\* extractAudioSegment(buffer, startTime, endTime)
ExtractAudioSegment(length, data, startTime, endTime) ==
    LET cs == ClampedStart(length, startTime)
        ce == ClampedEnd(length, startTime, endTime)
    IN  IF cs >= ce
        THEN Thrown("Invalid time range: start time must be less than end time")
        ELSE Returned(ce - cs, [ c \in {0, 1} |-> [ i \in 1..(ce - cs) |-> data[c][cs + i] ] ])

\* removeAudioSegment(buffer, startTime, endTime)
RemoveAudioSegment(length, data, startTime, endTime) ==
    LET cs == ClampedStart(length, startTime)
        ce == ClampedEnd(length, startTime, endTime)
    IN  IF cs >= ce THEN Returned(length, data)
        ELSE IF length - (ce - cs) <= 0 THEN Thrown("Cannot remove entire audio buffer")
        ELSE Returned(length - (ce - cs),
                      [ c \in {0, 1} |->
                          [ i \in 1..(length - (ce - cs)) |->
                              IF i <= cs THEN data[c][i] ELSE data[c][i + (ce - cs)] ] ])

\* An insertion that ignores insertTime and appends the segment: the variant
\* C39_CutPasteWholeFrames has to tell from InsertAudioSegment.
InsertAtEnd(length, data, segment, insertTime) ==
    Returned(length + segment.length,
             [ c \in {0, 1} |-> data[c] \o segment.data[c] ])

\* insertAudioSegment(buffer, segment, insertTime)
InsertAudioSegment(length, data, segment, insertTime) ==
    LET ci == Max(0, Min(length, SampleIndex(insertTime)))
    IN  Returned(length + segment.length,
                 [ c \in {0, 1} |->
                     [ i \in 1..(length + segment.length) |->
                         IF i <= ci THEN data[c][i]
                         ELSE IF i <= ci + segment.length THEN segment.data[c][i - ci]
                         ELSE data[c][i - segment.length] ] ])

\* The cut: the segment is extracted from the buffer.
ClipExtract ==
    /\ clip # NoClip
    /\ clip.extracted = NotCalled
    /\ clip' = [clip EXCEPT !.extracted =
                   ExtractAudioSegment(clip.length, clip.data, clip.startTime, clip.endTime)]
    /\ UNCHANGED << SessionVars, mp3, earlier, rateLimiter >>

\* The cut: the segment is removed from the buffer.
ClipRemove ==
    /\ clip # NoClip
    /\ clip.removed = NotCalled
    /\ clip' = [clip EXCEPT !.removed =
                   RemoveAudioSegment(clip.length, clip.data, clip.startTime, clip.endTime)]
    /\ UNCHANGED << SessionVars, mp3, earlier, rateLimiter >>

\* The paste: the extracted segment is inserted into the shortened buffer at
\* the start of the range.
ClipInsert ==
    /\ clip # NoClip
    /\ clip.extracted.error = "none"
    /\ clip.removed.error = "none"
    /\ clip.restored = NotCalled
    /\ clip' = [clip EXCEPT !.restored =
                   InsertAudioSegment(clip.removed.length, clip.removed.data,
                                      clip.extracted, clip.startTime)]
    /\ UNCHANGED << SessionVars, mp3, earlier, rateLimiter >>

\* Every buffer of 1..MaxClipFrames frames with every range
\* 0 <= startTime < endTime <= duration.
InitClip ==
    /\ InitProgram
    /\ graphs = [params |-> DefaultEffects, live |-> NoGraph, offline |-> NoGraph,
                 frames |-> 0, length |-> 0, error |-> "none"]
    /\ mp3 = NoEncode
    /\ earlier = EarlierMounted
    /\ rateLimiter = NoLimiter
    /\ \E length \in 1..MaxClipFrames :
         \E startTime \in 0..(length * TicksPerFrame), endTime \in 0..(length * TicksPerFrame) :
           /\ startTime < endTime
           /\ clip = [ length |-> length, data |-> ClipBuffer(length),
                       startTime |-> startTime, endTime |-> endTime,
                       extracted |-> NotCalled, removed |-> NotCalled,
                       restored |-> NotCalled ]

NextClip == ClipExtract \/ ClipRemove \/ ClipInsert

SpecClip == InitClip /\ [][NextClip]_vars

\* The whole program: every handler, every file, every snapshot.
Next ==
    \/ \E f \in Files : LoadStart(f)
    \/ LoadDecoded
    \/ LoadRendered
    \/ Play
    \/ PlaySuspended
    \/ PlayResumed
    \/ PlayResumeFailed
    \/ PlayNothing
    \/ Pause
    \/ Stop
    \/ \E n \in NodeIds : OnEnded(n)
    \/ \E time \in SeekTargets : SeekCall(time)
    \/ SeekStep
    \/ \E s \in Snapshots : SetEffects(s)
    \/ EffectTimerFire
    \/ IntervalFire
    \/ Tick
    \/ Export

Spec == Init /\ [][Next]_vars

(* ------------------------------- claims -------------------------------- *)
\* C1.  seek(t) while playing is build-then-swap.  While the playing branch of
\* seek() runs, after each of its statements some source node that was started
\* and not stopped is connected; and the node sourceNodeRef holds is stopped
\* or disconnected only once the new node is connected and started.
C1_BuildThenSwap ==
    ~Idle =>
        /\ \E n \in NodeIds : Live(n) /\ nodes[n].conn
        /\ ( /\ sourceNodeRef # 0
             /\ sourceNodeRef # seeking.new
             /\ (nodes[sourceNodeRef].by = "seek" \/ ~nodes[sourceNodeRef].conn) )
           => Live(seeking.new) /\ nodes[seeking.new].conn

\* C1, the case: in the middle of a seek the old and the new source are both
\* playing and connected.
C1_Overlap ==
    /\ ~Idle
    /\ sourceNodeRef # 0
    /\ sourceNodeRef # seeking.new
    /\ Audible(sourceNodeRef)
    /\ Audible(seeking.new)

\* C2.  The ended event of the source node that seek tore down is not handled
\* as a completion: dispatching it leaves the session as it is, playing on the
\* new source with the cursor where seek put it.
C2_SeekKeepsPlaying ==
    [][ \A n \in NodeIds :
          (OnEnded(n) /\ nodes[n].by = "seek")
              => /\ isPlaying' = isPlaying
                 /\ isPlayingRef' = isPlayingRef
                 /\ sourceNodeRef' = sourceNodeRef
                 /\ currentTime' = currentTime ]_vars

\* C3.  pause() stores the playback position of the source, read from the
\* audio clock, into the cursor, and the cursor keeps that value when the ended
\* event of the paused source is dispatched.
C3_PauseStoresCursor ==
    [][ /\ Pause => /\ currentTime' = nodes[sourceNodeRef].pos
                    /\ ~isPlaying'
                    /\ sourceNodeRef' = 0
        /\ \A n \in NodeIds :
              (OnEnded(n) /\ nodes[n].by = "pause") => currentTime' = currentTime ]_vars

\* C4.  play() starts the new source at the buffer offset the cursor shows and
\* sets isPlaying.
C4_PlayFromCursor ==
    [][ ((Play \/ PlayResumed) /\ sourceNodeRef' # sourceNodeRef)
            => /\ nodes'[sourceNodeRef'].pos = currentTime
               /\ isPlaying' ]_vars

\* C5.  The buffer handed to the encoder is a render made with the snapshot
\* that is current when export is called.
C5_ExportUsesCurrentSnapshot ==
    [][ Export => exported'.snap = effects ]_vars

\* C6.  Preview / export parity: once both graphs are built for a parameter
\* set, they have the same stages in the same order with the same values.
C6_PreviewExportParity ==
    (graphs.live # NoGraph /\ graphs.offline # NoGraph) => graphs.live = graphs.offline

\* C7, as stated.  Every parameter change made while playing leaves exactly
\* one application pending, due EffectDebounceMs later and carrying that
\* change.
C7_ExactlyOneApplication ==
    [][ \A s \in StageSnapshots :
          (SetEffects(s) /\ isPlayingRef)
              => timers' = {[due |-> EffectDebounceMs, snap |-> s]} ]_vars

\* C7, amended.  After a parameter change made while the audio context
\* exists at most one application is pending: none if the new snapshot equals
\* the one applied last (lastEffectsRef), otherwise exactly one, due
\* EffectDebounceMs after the change and carrying the new snapshot, every
\* earlier pending one being dropped.  A timer that fires applies the current
\* snapshot to the stage values and leaves no application pending.
C7_Debounce ==
    [][ /\ \A s \in StageSnapshots :
              (SetEffects(s) /\ ctxState # "none")
                  => timers' = IF s = lastEffectsRef THEN {}
                               ELSE {[due |-> EffectDebounceMs, snap |-> s]}
        /\ \A t \in timers :
              TimerCallback(t)
                  => /\ t.snap = effects
                     /\ timers' = {}
                     /\ lastEffectsRef' = effects
                     /\ stage # NoStage => stage'.volume = VolumeGainLive(effects.volume) ]_vars

\* C7, the case: while playing, an application is pending that is due
\* EffectDebounceMs from now and carries the current snapshot, which differs
\* from the snapshot applied last in reverb and in volume.
C7_BurstPending ==
    /\ isPlayingRef
    /\ \E t \in timers :
          /\ t.due = EffectDebounceMs
          /\ t.snap = effects
          /\ t.snap.reverb # lastEffectsRef.reverb
          /\ t.snap.volume # lastEffectsRef.volume

\* C8.  A parameter application while playing sets values on the existing
\* stage nodes only: the source nodes, sourceNodeRef, isPlaying and the cursor
\* are unchanged, the stage nodes and the convolver's impulse are the ones
\* there were, and the gains are those of the applied snapshot.
C8_HotSwapInPlace ==
    [][ \A t \in timers :
          (TimerCallback(t) /\ isPlayingRef)
              => /\ UNCHANGED << nodes, playbackVars, audioBufferRef, duration >>
                 /\ stage'.built = stage.built
                 /\ stage'.impulse = stage.impulse
                 /\ stage'.volume = VolumeGainLive(t.snap.volume)
                 /\ stage'.bass = BassGainLive(t.snap.bassBoost)
                 /\ stage'.dry = DryGain(t.snap.reverb)
                 /\ stage'.wet = WetGain(t.snap.reverb)
                 /\ stage'.post = PostFilterGain(t.snap.reverb) ]_vars

\* C8, the case: a source is playing through a stage whose gains were set for
\* a reverb amount other than the one its impulse was built for.
C8_SwappedWhilePlaying ==
    /\ isPlayingRef
    /\ sourceNodeRef # 0
    /\ Audible(sourceNodeRef)
    /\ nodes[sourceNodeRef].cur
    /\ nodes[sourceNodeRef].pos > 0
    /\ stage.impulse # lastEffectsRef.reverb
    /\ stage.wet = WetGain(lastEffectsRef.reverb)
    /\ lastEffectsRef = effects

\* C9.  stop() leaves no source in sourceNodeRef, the source it held neither
\* playing nor connected, isPlaying false and the cursor at 0, whatever the
\* state it is called in.
C9_StopPostcondition ==
    [][ Stop => /\ sourceNodeRef' = 0
                /\ ~isPlaying'
                /\ ~isPlayingRef'
                /\ currentTime' = 0
                /\ pausedAtRef' = 0
                /\ sourceNodeRef # 0
                      => /\ nodes'[sourceNodeRef].st # "playing"
                         /\ ~nodes'[sourceNodeRef].conn ]_vars

\* C9, the case: stop() was called with a playing source whose cursor had
\* been moved, and has torn it down.
C9_StoppedWhilePlaying ==
    /\ \E n \in NodeIds : nodes[n].by = "stop" /\ nodes[n].pos > 0 /\ ~nodes[n].conn
    /\ sourceNodeRef = 0
    /\ ~isPlaying
    /\ currentTime = 0
    /\ currentTimeRef > 0

\* C10.  The ended event of a source that played to the end of its buffer, and
\* the time update loop once its reading is past the duration, leave the
\* controller stopped (isPlaying false, no source in sourceNodeRef) with the
\* cursor at 0.
C10_NaturalEnd ==
    [][ /\ \A n \in NodeIds :
              (OnEnded(n) /\ nodes[n].st = "finished")
                  => /\ ~isPlaying' /\ ~isPlayingRef'
                     /\ sourceNodeRef' = 0
                     /\ currentTime' = 0
                     /\ pausedAtRef' = 0
        /\ (IntervalFire /\ sourceNodeRef # 0 /\ NewTime > interval.dur)
              => /\ ~isPlaying' /\ ~isPlayingRef'
                 /\ sourceNodeRef' = 0
                 /\ currentTime' = 0 ]_vars

\* C10, the case: the session's source has played to the end of its buffer
\* with the cursor moved by the time update loop, and its ended event is
\* about to be dispatched.
C10_ReachedEnd ==
    /\ isPlaying
    /\ sourceNodeRef # 0
    /\ nodes[sourceNodeRef].st = "finished"
    /\ nodes[sourceNodeRef].pos = duration
    /\ currentTime > 0

\* C11.  play() is effective only from Stopped or Paused: no step of play()
\* taken while the controller is Playing (isPlayingRef set, a source in
\* sourceNodeRef) changes the session or creates or starts a source node.
C11_PlayOnlyWhenNotPlaying ==
    [][ ((Play \/ PlayResumed) /\ isPlayingRef /\ sourceNodeRef # 0)
            => UNCHANGED << nodes, playbackVars >> ]_vars

\* C12.  play() called with no buffer loaded, or whose audio context cannot
\* be resumed, reports an error to its caller.
C12_PlaybackUnavailable ==
    [][ /\ ((PlayNothing \/ PlayResumed) /\ audioBufferRef = 0)
              => playResult' \notin {"none", "resolved"}
        /\ PlayResumeFailed => playResult' \notin {"none", "resolved"} ]_vars

\* C13.  A call that fails part-way (play() whose resume() is rejected or
\* whose start throws, seek() whose start throws) leaves isPlaying, the cursor
\* and the source reference as they were before the call.
C13_FailureKeepsState ==
    [][ (PlayResumeFailed \/ PlayStartFails \/ \E time \in SeekTargets : SeekFails(time))
            => UNCHANGED << isPlaying, isPlayingRef, currentTime, sourceNodeRef >> ]_vars

C15_PausedSeekOnlyMovesCursor ==
    [][ \A time \in SeekTargets :
          (SeekCall(time) /\ ~isPlaying) =>
              /\ ~isPlaying'
              /\ seeking' = NoSeek
              /\ currentTime' = Clamp(time)
              /\ UNCHANGED << nodes, sourceNodeRef, isPlayingRef, stage >> ]_vars

\* C15 witness: a file is loaded, no source node exists, and a seek has put
\* the cursor and the paused position inside the file.
C15_SoughtWhilePaused ==
    /\ stage # NoStage
    /\ ~isPlaying
    /\ \A n \in NodeIds : nodes[n].st = "free"
    /\ currentTime = 100
    /\ pausedAtRef = 100

\* C16.  The offline render of a buffer of frameCount frames at tempo t is
\* floor(frameCount / t) frames long (tempo in tenths: frameCount * 10 \div t).
C16_RenderLength ==
    graphs.offline # NoGraph
        => graphs.length = (graphs.frames * 10) \div graphs.params.tempo

\* C17.  With a buffer loaded, a debounced parameter application installs a
\* fresh reverb impulse in the convolver if and only if the reverb amount it
\* applies differs from the one applied before, and the impulse installed is
\* the one synthesized for the new amount.
C17_ImpulseFollowsReverb ==
    [][ (EffectTimerFire /\ stage # NoStage) =>
            /\ (stage'.impulse # stage.impulse)
                    <=> (lastEffectsRef'.reverb # lastEffectsRef.reverb)
            /\ lastEffectsRef'.reverb # lastEffectsRef.reverb
                    => stage'.impulse = lastEffectsRef'.reverb ]_vars

\* C18.  A burst of parameter changes is followed by one offline render of
\* its final snapshot: once a render is stored and the parameters differ from
\* the ones it was made with, either the parameters change again or the
\* stored render becomes the render of these parameters.
C18_BurstRendersFinal ==
    \A s \in Snapshots :
        (processedAudioBuffer # NoRender /\ effects = s /\ processedAudioBuffer.snap # s)
            ~> (effects # s
                  \/ (processedAudioBuffer # NoRender /\ processedAudioBuffer.snap = s))

\* C19.  Whatever the order in which renders complete, the stored render ends
\* up being the render of the latest parameter snapshot: if from some point on
\* a render is stored and the parameters stay s, then from some point on the
\* stored render is the render made with s.
C19_LatestRenderWins ==
    \A s \in Snapshots :
        <>[](processedAudioBuffer # NoRender /\ effects = s)
            => <>[](processedAudioBuffer # NoRender /\ processedAudioBuffer.snap = s)

\* C20.  The live graph does not outlive its buffer: once a buffer is
\* loaded, every started source node reads that buffer, and every source node
\* still connected feeds the stage nodes built for it.
C20_GraphDiesWithBuffer ==
    \A n \in NodeIds :
        /\ nodes[n].st = "playing" => nodes[n].buf = audioBufferRef
        /\ (nodes[n].st # "free" /\ nodes[n].conn) => nodes[n].cur

\* C21.  While the session is playing the cursor follows the audio clock:
\* once the active source has played for more than one period of the time
\* update loop since play() started it at pausedAtRef, the cursor has advanced
\* beyond that offset.
C21_CursorFollowsClock ==
    \A n \in NodeIds :
        ( /\ isPlaying
          /\ sourceNodeRef = n
          /\ nodes[n].st = "playing"
          /\ nodes[n].pos >= pausedAtRef
                               + ((TimeUpdateMs + TickMs) * nodes[n].rate) \div 10 )
            => currentTime > pausedAtRef

\* C22.  No operation observes a half-connected graph: between operations,
\* whenever isPlaying is true the source node sourceNodeRef holds is connected
\* to a built stage chain, and no step starts a source node that is not
\* connected, also when play() falls between the start and the end of an
\* import.
C22_NoHalfConnectedGraph ==
    /\ []((Idle /\ isPlaying) =>
              /\ stage # NoStage
              /\ sourceNodeRef # 0
              /\ nodes[sourceNodeRef].conn)
    /\ [][ \A n \in NodeIds :
              (~Live(n) /\ Live(n)') => nodes'[n].conn ]_vars

\* C22 witness: play() was called while the next file was being decoded, and
\* its source node is started and connected.
C22_PlayedDuringImport ==
    /\ loading # NoLoad
    /\ loading.phase = "decoding"
    /\ audioBufferRef # 0
    /\ isPlaying
    /\ sourceNodeRef # 0
    /\ nodes[sourceNodeRef].st = "playing"
    /\ nodes[sourceNodeRef].pos = 0

\* C23.  The stage nodes are retained and reused: whatever play, pause and
\* seek cycles have happened, the live graph never has more than one dry path
\* and one wet path from the last chain stage to the output, and it has
\* exactly one of each while a source node is wired to the chain the refs
\* hold.
C23_PathsDoNotAccumulate ==
    stage # NoStage =>
        /\ MixPaths(stage, "dry") <= 1
        /\ MixPaths(stage, "wet") <= 1
        /\ PathCount(stage.edges, RefNode("bass"), RefNode("destination")) <= 2
        /\ (\E n \in NodeIds : nodes[n].st # "free" /\ nodes[n].conn /\ nodes[n].cur)
              => /\ MixPaths(stage, "dry") = 1
                 /\ MixPaths(stage, "wet") = 1
                 /\ PathCount(stage.edges, RefNode("bass"), RefNode("destination")) = 2

\* C23 witness: a source was started by play(), replaced by seek(), and the
\* replacement stopped by pause(): the chain was wired twice.
C23_PlayedSoughtPaused ==
    /\ ~isPlaying
    /\ \E n \in NodeIds : nodes[n].by = "seek"
    /\ \E n \in NodeIds : nodes[n].by = "pause"
    /\ stage # NoStage
    /\ ChainEdges \subseteq stage.edges

\* C24.  Tempo maps 1:1 to the playback rate: when the debounced application
\* of a parameter change fires while a source is playing, that source's
\* playback rate is the tempo applied, and the time update loop advances the
\* cursor at the same rate.
C24_TempoIsPlaybackRate ==
    [][ ( /\ EffectTimerFire
          /\ isPlayingRef
          /\ sourceNodeRef # 0
          /\ nodes[sourceNodeRef].st = "playing" )
            => /\ nodes'[sourceNodeRef].rate = lastEffectsRef'.tempo
               /\ interval' # NoInterval => interval'.tempo = nodes'[sourceNodeRef].rate ]_vars

\* C25.  Every built graph, live or offline, has its chain stages in the
\* fixed order volume gain, bass low shelf, bass high shelf before the dry/wet
\* split (the parameters of the grid carry no advanced fields, so no EQ,
\* limiter or attenuator stage is due).
C25_FixedStageOrder ==
    /\ graphs.live # NoGraph =>
           [i \in 1..Len(graphs.live.chain) |-> graphs.live.chain[i].kind]
               = << "gain", "lowshelf", "highshelf" >>
    /\ graphs.offline # NoGraph =>
           [i \in 1..Len(graphs.offline.chain) |-> graphs.offline.chain[i].kind]
               = << "gain", "lowshelf", "highshelf" >>

\* The stages of a given kind in the chain of a built graph.
StagesOf(g, kind) == {i \in 1..Len(g.chain) : g.chain[i].kind = kind}

\* C26.  With the three boolean gates explicitly given, the limiter stage is
\* in a built graph if and only if audioProcessingEnabled and limiter are
\* true, and the attenuator stage if and only if audioProcessingEnabled and
\* attenuator are true.
C26_GatedStages ==
    ( /\ graphs.params.limiter # {}
      /\ graphs.params.attenuator # {}
      /\ graphs.params.audioProcessingEnabled # {} )
        => /\ graphs.live # NoGraph =>
                /\ (StagesOf(graphs.live, "limiter") # {})
                       <=> (graphs.params.audioProcessingEnabled = {TRUE}
                               /\ graphs.params.limiter = {TRUE})
                /\ (StagesOf(graphs.live, "attenuator") # {})
                       <=> (graphs.params.audioProcessingEnabled = {TRUE}
                               /\ graphs.params.attenuator = {TRUE})
           /\ graphs.offline # NoGraph =>
                /\ (StagesOf(graphs.offline, "limiter") # {})
                       <=> (graphs.params.audioProcessingEnabled = {TRUE}
                               /\ graphs.params.limiter = {TRUE})
                /\ (StagesOf(graphs.offline, "attenuator") # {})
                       <=> (graphs.params.audioProcessingEnabled = {TRUE}
                               /\ graphs.params.attenuator = {TRUE})

\* C27.  In the live and in the offline graph alike, for every reverb amount
\* r the dry path is one gain of 1 - r and the wet path ends in a gain of
\* r * 1.5 (reverb in tenths, gains in millionths), and both paths are there
\* to be summed into the output.
C27_DryWetMix ==
    LET r == graphs.params.reverb
        Mix(g) == /\ Len(g.dry) = 1
                  /\ g.dry[1].kind = "gain"
                  /\ g.dry[1].val = 1000000 - r * 100000
                  /\ Len(g.wet) > 0
                  /\ g.wet[Len(g.wet)].kind = "gain"
                  /\ g.wet[Len(g.wet)].val * 10 = r * 100000 * 15
    IN /\ graphs.live # NoGraph => Mix(graphs.live)
       /\ graphs.offline # NoGraph => Mix(graphs.offline)

\* C27 witness: both graphs are built for a reverb amount inside (0, 1).
C27_BothBuiltMidReverb ==
    /\ graphs.params.reverb = 3
    /\ graphs.live # NoGraph
    /\ graphs.offline # NoGraph

\* The EQ sliders of a parameter set, in the order of the bands.
BandSliders(adv) == << adv.eqLow, adv.eqLowMid, adv.eqMid, adv.eqHighMid, adv.eqHigh >>

\* C28.  For every EQ band whose slider s is given, endpoints included, the
\* gain set on the band's filter is (s - 0.5) * 40 dB: 0 dB at 0.5, -20 dB at
\* 0 and +20 dB at 1 (sliders in tenths).
C28_EqSliderToDb ==
    LET Bands(g) ==
            Len(g.chain) >= 5 =>
                \A i \in 1..5 :
                    BandSliders(graphs.params)[i] # {} =>
                        g.chain[i].val * 10
                            = (Value(BandSliders(graphs.params)[i]) * 10 - 50) * 4
    IN /\ graphs.live # NoGraph => Bands(graphs.live)
       /\ graphs.offline # NoGraph => Bands(graphs.offline)

\* C29.  An optional parameter that is given is used as given: the limiter
\* stage has the threshold limiterThreshold when it is supplied, 0 dB
\* included, and the attenuator stage the linear gain 10^(attenuatorGain/20),
\* which is 1 for 0 dB.
C29_GivenValueIsUsed ==
    LET Used(g) ==
            /\ \A i \in StagesOf(g, "limiter") :
                   graphs.params.limiterThreshold # {} =>
                       g.chain[i].val = Value(graphs.params.limiterThreshold)
            /\ \A i \in StagesOf(g, "attenuator") :
                   graphs.params.attenuatorGain = {0} => g.chain[i].val = 1000000
    IN /\ graphs.live # NoGraph => Used(graphs.live)
       /\ graphs.offline # NoGraph => Used(graphs.offline)

C31_TempoClamped ==
    \A g \in {graphs.live, graphs.offline} :
        g # NoGraph =>
            /\ g.rate * 10 >= TempoMinPercent
            /\ g.rate * 10 <= TempoMaxPercent
            /\ (graphs.params.tempo * 10 \in TempoMinPercent..TempoMaxPercent
                    => g.rate = graphs.params.tempo)

\* C32: the volume-to-gain mapping is non-decreasing over [0, 1], exactly 0 at
\* volume 0 and bounded in [0, 2], in the live update and in the offline
\* render: the gain (millionths) of the first stage of every graph built lies
\* in [0, 2], is 0 for volume 0, and is no less than the gain that graph's
\* mapping gives any lower volume.
C32_VolumeMapping ==
    /\ graphs.live # NoGraph =>
           /\ graphs.live.chain[1].val \in 0..2000000
           /\ (graphs.params.volume = 0 => graphs.live.chain[1].val = 0)
           /\ \A w \in Grid : w <= graphs.params.volume
                  => VolumeGainLive(w) <= graphs.live.chain[1].val
    /\ graphs.offline # NoGraph =>
           /\ graphs.offline.chain[1].val \in 0..2000000
           /\ (graphs.params.volume = 0 => graphs.offline.chain[1].val = 0)
           /\ \A w \in Grid : w <= graphs.params.volume
                  => VolumeGainOffline(w) <= graphs.offline.chain[1].val

\* The PCM frames of a buffer, frame by frame: what a frame-accurate encoder
\* input consists of.
PcmFrames(buffer) ==
    [ f \in 1..buffer.length |->
          [ c \in 1..buffer.numberOfChannels |-> Pcm(ChannelData(buffer, c - 1, f - 1)) ] ]

\* The frames handed to encodeBuffer over all calls, in order.
PassedFrames(calls) ==
    [ f \in 1..(Len(calls) * BlockSize) |->
          LET call == calls[((f - 1) \div BlockSize) + 1]
              j == ((f - 1) % BlockSize) + 1
          IN  IF call.right = << >> THEN << call.left[j] >>
              ELSE << call.left[j], call.right[j] >> ]

\* C33: the PCM handed to the encoder has frame-accurate length: when the
\* block loop is over, the frames passed to encodeBuffer are the frames of the
\* buffer, each once and in order, with no padding frame for a final partial
\* block.
C33_FrameAccurate ==
    mp3.phase = "done" => PassedFrames(mp3.calls) = PcmFrames(mp3.buffer)

\* C34: before the conversion to 16-bit PCM every sample is clamped to
\* [-1, 1], so every PCM value lies in [-32767, 32767] whatever the sample, and
\* the samples are interleaved frame by frame in channel order: the value at
\* frame f, channel c is full scale for a sample at or beyond full scale, 0
\* for NaN, and the sample scaled by 32767 with its fraction dropped otherwise.
C34_ClampedInterleavedPcm ==
    mp3.phase \in {"encode", "done"} =>
        /\ Len(mp3.samples) = mp3.buffer.length * mp3.buffer.numberOfChannels
        /\ \A f \in 0..(mp3.buffer.length - 1), c \in 0..(mp3.buffer.numberOfChannels - 1) :
               LET s == ChannelData(mp3.buffer, c, f)
                   pcm == mp3.samples[f * mp3.buffer.numberOfChannels + c + 1]
               IN  /\ pcm \in -32767..32767
                   /\ pcm = CASE s = NaN -> 0
                              [] s # NaN /\ s >= 1000 -> 32767
                              [] s # NaN /\ s <= -1000 -> -32767
                              [] OTHER -> IF s >= 0 THEN (s * 32767) \div 1000
                                          ELSE 0 - ((0 - s) * 32767) \div 1000

\* C34 witness: a stereo buffer holding samples beyond full scale on both
\* sides and a NaN has been converted.
C34_ConvertedOverFullScale ==
    /\ mp3.phase = "encode"
    /\ mp3.buffer.numberOfChannels = 2
    /\ mp3.buffer.length = MaxFrames
    /\ \E f \in 0..(MaxFrames - 1) : ChannelData(mp3.buffer, 1, f) = 1500
    /\ \E f \in 0..(MaxFrames - 1) : ChannelData(mp3.buffer, 0, f) = -2000
    /\ \E f \in 0..(MaxFrames - 1) : ChannelData(mp3.buffer, 0, f) = NaN

\* C35: an end event delivered for a source that pause() or stop() tore down
\* does not affect a playback pass started afterwards: when the event of such
\* a source is handled while the session plays on another source, the session
\* stays Playing, that source stays referenced and connected, and the cursor
\* is not reset.
C35_LateEndIgnored ==
    [][ \A n \in NodeIds :
          ( /\ OnEnded(n)
            /\ nodes[n].by \in {"pause", "stop"}
            /\ isPlaying
            /\ sourceNodeRef \notin {0, n}
            /\ nodes[sourceNodeRef].conn )
          => /\ isPlaying'
             /\ isPlayingRef'
             /\ sourceNodeRef' = sourceNodeRef
             /\ nodes'[sourceNodeRef].conn
             /\ currentTime' = currentTime
             /\ pausedAtRef' = pausedAtRef ]_vars

\* C36: between operations, isPlaying holds exactly when sourceNodeRef holds a
\* started source node, and at most one source node is started and not yet
\* stopped or finished.
C36_OneStartedSource ==
    Idle =>
        /\ isPlaying <=> (sourceNodeRef # 0 /\ Live(sourceNodeRef))
        /\ Cardinality({n \in NodeIds : nodes[n].st = "playing"}) <= 1

\* C37: the live-update debounce timer and the re-render debounce timer are
\* independent, scheduling or clearing one never cancels the other: after a
\* change of the parameters with a buffer loaded, a timer for the live update
\* and a timer for the re-render are both pending for the new parameters.
C37_IndependentTimers ==
    [][ \A s \in Snapshots :
          (EarlierSetEffects(s) /\ earlier.loaded /\ s # earlier.lastEffectsRef)
              => /\ [kind |-> "live", snap |-> s] \in earlier'.timers
                 /\ [kind |-> "render", snap |-> s] \in earlier'.timers ]_vars

\* The number of calls admitted for key at a time in [from, from + windowMs).
AdmittedIn(key, from) ==
    Cardinality({ i \in 1..Len(rateLimiter.admitted[key]) :
                    /\ rateLimiter.admitted[key][i] >= from
                    /\ rateLimiter.admitted[key][i] < from + rateLimiter.windowMs })

\* C38: isAllowed(key) never admits more than maxRequests requests for the
\* same key within any sliding window of windowMs milliseconds, whatever
\* maxRequests, windowMs and the calls are.
C38_RateLimit ==
    rateLimiter # NoLimiter =>
        \A key \in LimiterKeys, from \in 0..MaxClock :
            AdmittedIn(key, from) <= rateLimiter.maxRequests

\* C39, as stated.  Cut and paste is lossless for every range
\* 0 <= start < end <= duration that does not cover the whole buffer: the cut
\* returns a segment and a remainder whose lengths add up to the buffer's,
\* inserting the segment into the remainder at start gives the buffer back
\* sample for sample, and the buffer is not modified.
C39_CutPasteLossless ==
    (clip # NoClip /\ ~(clip.startTime = 0 /\ clip.endTime = clip.length * TicksPerFrame)) =>
        /\ clip.data = ClipBuffer(clip.length)
        /\ clip.extracted.error \in {"none", "not called"}
        /\ clip.removed.error \in {"none", "not called"}
        /\ (clip.extracted.error = "none" /\ clip.removed.error = "none")
               => clip.extracted.length + clip.removed.length = clip.length
        /\ clip.restored.error = "none"
               => clip.restored.length = clip.length /\ clip.restored.data = clip.data

\* C39, amended.  Cut and paste is lossless for every range whose frame
\* indices floor(start * rate) < floor(end * rate) select at least one frame
\* and not all of them: the lengths of segment and remainder add up, the
\* insertion at start gives the buffer back sample for sample, and the buffer
\* is not modified.  A range inside one frame makes extractAudioSegment throw
\* and removeAudioSegment return a copy; a range that selects every frame
\* makes removeAudioSegment throw.
C39_CutPasteWholeFrames ==
    clip # NoClip =>
        LET first == SampleIndex(clip.startTime)
            last == SampleIndex(clip.endTime)
        IN  /\ clip.data = ClipBuffer(clip.length)
            /\ (first < last /\ last - first < clip.length) =>
                   /\ clip.extracted.error \in {"none", "not called"}
                   /\ clip.removed.error \in {"none", "not called"}
                   /\ (clip.extracted.error = "none" /\ clip.removed.error = "none")
                          => clip.extracted.length + clip.removed.length = clip.length
                   /\ clip.restored.error = "none"
                          => /\ clip.restored.length = clip.length
                             /\ \A c \in {0, 1}, i \in 1..clip.length :
                                    clip.restored.data[c][i] = 10 * c + i
            /\ (first = last /\ clip.extracted # NotCalled) => clip.extracted.error # "none"
            /\ (first = last /\ clip.removed # NotCalled)
                   => clip.removed.error = "none" /\ clip.removed.data = clip.data
            /\ (last - first = clip.length /\ clip.removed # NotCalled)
                   => clip.removed.error # "none"

\* C39 witness: a segment from the middle of the longest buffer, its start
\* and end inside a frame, has been cut and pasted back.
C39_MiddlePastedBack ==
    /\ clip # NoClip
    /\ clip.length = MaxClipFrames
    /\ clip.startTime % TicksPerFrame # 0
    /\ clip.endTime % TicksPerFrame # 0
    /\ SampleIndex(clip.startTime) > 0
    /\ clip.extracted.error = "none"
    /\ clip.extracted.length > 1
    /\ clip.restored.error = "none"
====
